---- MODULE Spec2Model ----
(***************************************************************************)
(* DistilRoBERTa encoder with activation interchange and the distillation  *)
(* loss composer (src/distillation/models/modeling_distilroberta.py).      *)
(*                                                                         *)
(* A tensor of shape (batch, hidden) is a function Rows -> (Cols -> Int);  *)
(* a row is one example of the batch, the unit the two interchange masks   *)
(* select.  The numeric kernels (attention, feed-forward, layer norm) are  *)
(* abstracted to a deterministic integer function of the layer index, the  *)
(* input row and its attention-mask entry; losses are symbolic values that *)
(* name the computation which produced them.                               *)
(***************************************************************************)
EXTENDS Integers, Sequences, FiniteSets, TLC

\* ---------------------------------------------------------------- bounds
BatchSize == 2
NumLayers == 2
NumHeads == 2
HeadDim == 3
Vocab == 2
MaxPositions == 3
MaxCalls == 3

None == "None"

Rows == 0 .. (BatchSize - 1)
Layers == 0 .. (NumLayers - 1)
\* Transformer.__init__: head_dimension = hidden_size // num_attention_heads
head_dimension == HeadDim
HiddenSize == NumHeads * HeadDim
Cols == 0 .. (HiddenSize - 1)

Min(a, b) == IF a < b THEN a ELSE b

\* ------------------------------------------------------- tensor helpers
\* The rows a boolean mask marks, in increasing order (boolean-mask indexing
\* enumerates the true positions in order).
RECURSIVE MarkedFrom(_, _)
MarkedFrom(mask, r) ==
    IF r >= BatchSize THEN << >>
    ELSE (IF mask[r] THEN << r >> ELSE << >>) \o MarkedFrom(mask, r + 1)

MarkedRows(mask) == MarkedFrom(mask, 0)

\* t[mask]: the marked rows of t, in order; shape (count, width).
MaskedRows(t, mask) ==
    [j \in 1 .. Len(MarkedRows(mask)) |-> t[MarkedRows(mask)[j]]]

\* The columns the basic slice [..., start:stop] views; a slice is clipped to
\* the dimension's size.
SliceCols(start, stop) == {c \in Cols : start <= c /\ c < Min(stop, HiddenSize)}

\* Width of the rows of a (count, width) value; 0 rows carry the width of the
\* tensor they were taken from.
ValueWidth(stored) == Len(stored[0])

\* A value of shape (n, wv) can be assigned to an indexing result of shape
\* (m, wd) when every dimension is equal or is 1 in the value.
Expandable(n, wv, m, wd) == (n = m \/ n = 1) /\ (wv = wd \/ wv = 1)


\* ------------------------------------------------------------ the state
VARIABLES
    \* arguments of Transformer.forward
    x, attn_mask, output_hidden_states, output_attentions,
    interchanged_variables, variable_names, interchange_mask, dual_interchange_mask,
    \* locals of Transformer.forward
    hidden_state, all_hidden_states, all_attentions, i, vi,
    \* position in the call, the exception raised, the value returned
    pc, error, result,
    \* history of the forward pass: each block's input and output, each layer's
    \* state when its iteration ends, the interchange steps run per layer, and
    \* the last interchange step (its variable, the state before it, the cells
    \* it assigned)
    block_input, block_output, layer_output, interchange_count, last_interchange,
    \* arguments of DistilRobertaForMaskedLM.forward (loss_args: those only the
    \* loss composer reads), the entry point called, and the student outputs
    input_ids, inputs_embeds, attention_mask, labels, return_dict, loss_args,
    caller, student_outputs,
    \* two soft-target loss computations on concrete logits
    selection,
    \* an attention module and the position embeddings of a model, the calls
    \* made on them, and both as they were before the last call
    attention, embeddings, calls, before

forward_vars == << x, attn_mask, output_hidden_states, output_attentions,
           interchanged_variables, variable_names, interchange_mask,
           dual_interchange_mask, hidden_state, all_hidden_states, all_attentions,
           i, vi, pc, error, result, block_input, block_output, layer_output,
           interchange_count, last_interchange, input_ids, inputs_embeds,
           attention_mask, labels, return_dict, loss_args, caller, student_outputs >>

\* The state outside the forward pass.
other_vars == << selection, attention, embeddings, calls, before >>

vars == << forward_vars, other_vars >>

lm_vars == << input_ids, inputs_embeds, attention_mask, labels, return_dict,
              loss_args, caller, student_outputs >>

\* ------------------------------------------------------------- inputs
\* The embedding output fed to the first block.
EmbeddingOutput == [r \in Rows |-> [c \in Cols |-> 1 + r * HiddenSize + c]]

AllOnes == [r \in Rows |-> 1]
AllTrue == [r \in Rows |-> TRUE]
AllFalse == [r \in Rows |-> FALSE]
Masks == [Rows -> BOOLEAN]

\* The donor batch's stored activations of width w: one row per example, with
\* values no block output takes.
StoredActivations(w) == [r \in Rows |-> [k \in 1 .. w |-> 0 - (100 * w + 10 * r + k)]]

\* interchanged_variables: stored activations, keyed by name; the name of a
\* stored tensor here is its width.
DonorNames == 1 .. HeadDim
SuppliedVariables == [kind |-> "dict", map |-> [w \in DonorNames |-> StoredActivations(w)]]
NoVariables == [kind |-> None, map |-> << >>]

\* A variable reference (name, head index, slice(start, stop)).  The named
\* donor tensor is as wide as the offset range is long, or as wide as the
\* range's stop.
Refs ==
    {[name |-> w, head |-> h, start |-> a, stop |-> b] :
        h \in 0 .. (NumHeads - 1), a \in 0 .. (HeadDim - 1), b \in 1 .. HeadDim,
        w \in DonorNames}

ValidRefs == {v \in Refs : v.start < v.stop /\ v.name \in {v.stop - v.start, v.stop}}

Sibling(v) == [v EXCEPT !.head = (v.head + 1) % NumHeads]
VarLists == {<< v >> : v \in ValidRefs} \cup {<< v, Sibling(v) >> : v \in ValidRefs}

LayerSets == {{}} \cup {{l} : l \in Layers} \cup {Layers}
NoNames == [kind |-> None, keys |-> {}, list |-> << >>]
EmbeddingsName == [kind |-> "embeddings", keys |-> {}, list |-> << >>]
NameDicts == {[kind |-> "dict", keys |-> ks, list |-> vl] : ks \in LayerSets, vl \in VarLists}

NoRef == [name |-> 1, head |-> 0, start |-> 0, stop |-> 1]
NoStep == [done |-> FALSE, layer |-> 0, ref |-> NoRef, pre |-> EmbeddingOutput, written |-> {}]

\* ------------------------------------------------- Transformer.forward
\* One transformer block (self-attention, feed-forward, two layer norms): a new
\* tensor, computed row by row from the input row and its attention mask.
TransformerBlock(l, h, mask) ==
    [r \in Rows |-> [c \in Cols |->
        h[r][c] + h[r][(c + 1) % HiddenSize] + (l + 1) + mask[r]]]

\* variable_names != None and variable_names != "embeddings" and i in variable_names
Interchanges(l) == variable_names.kind = "dict" /\ l \in variable_names.keys

start_index(v) == v.head * head_dimension + v.start
stop_index(v) == start_index(v) + v.stop

\* hidden_state[..., start:stop][interchange_mask] = replacing_activations
\* The assignment's target is the slice's columns of the rows the mask marks;
\* the value is broadcast to it, or the assignment raises.
AssignOk(v, mask, replacing, wv) ==
    Expandable(Len(replacing), wv, Len(MarkedRows(mask)),
               Cardinality(SliceCols(start_index(v), stop_index(v))))

AssignedCells(v, mask) ==
    {<< MarkedRows(mask)[j], c >> :
        j \in 1 .. Len(MarkedRows(mask)), c \in SliceCols(start_index(v), stop_index(v))}

\* Position of row r among the marked rows.
RankOf(mask, r) == CHOOSE j \in 1 .. Len(MarkedRows(mask)) : MarkedRows(mask)[j] = r

\* Mutant: the donor rows are paired with the destination rows in reverse.
Assigned_Reversed(h, v, mask, replacing, wv) ==
    [r \in Rows |-> [c \in Cols |->
        IF << r, c >> \in AssignedCells(v, mask)
        THEN replacing[IF Len(replacing) = 1 THEN 1
                       ELSE Len(replacing) + 1 - RankOf(mask, r)]
                      [IF wv = 1 THEN 1 ELSE c - start_index(v) + 1]
        ELSE h[r][c]]]

\* Mutant: the assignment lands in a copy and the running state keeps its
\* values.
Assigned_OnCopy(h, v, mask, replacing, wv) == h

Assigned(h, v, mask, replacing, wv) ==
    [r \in Rows |-> [c \in Cols |->
        IF << r, c >> \in AssignedCells(v, mask)
        THEN replacing[IF Len(replacing) = 1 THEN 1 ELSE RankOf(mask, r)]
                      [IF wv = 1 THEN 1 ELSE c - start_index(v) + 1]
        ELSE h[r][c]]]


\* ------------------------------ inputs of DistilRobertaForMaskedLM.forward
\* An optional tensor argument: given or None.  A mask or label tensor has one
\* entry per row; a teacher or student tensor is known by its shape.
NotGiven == [given |-> FALSE, value |-> [r \in Rows |-> 0]]
Given(t) == [given |-> TRUE, value |-> t]

\* An attention mask that ignores the last row.
PaddedMask == [r \in Rows |-> IF r = BatchSize - 1 THEN 0 ELSE 1]
AttentionMasks == {NotGiven, Given(AllOnes), Given(PaddedMask)}

\* Gold labels: a token id on row 0, the ignore sentinel elsewhere.
IgnoreIndex == 0 - 100
SomeLabels == [r \in Rows |-> IF r = 0 THEN 7 ELSE IgnoreIndex]
LabelArgs == {NotGiven, Given(SomeLabels)}

\* The embeddings a caller passes in place of token ids.
PrecomputedEmbeds == [r \in Rows |-> [c \in Cols |-> 2 + r * HiddenSize + c]]

StudentShape == "student"
NoTeacher == [given |-> FALSE, shape |-> None]
Teacher == [given |-> TRUE, shape |-> StudentShape]
TeacherArgs == {NoTeacher, Teacher}
\* A teacher tensor whose size differs from the student's.
MismatchedTeacher == [given |-> TRUE, shape |-> "other"]
TeacherTensorArgs == {NoTeacher, Teacher, MismatchedTeacher}

NoTemperature == [given |-> FALSE, value |-> 0]
TemperatureArgs == {NoTemperature, [given |-> TRUE, value |-> 2]}
AlphaValues == {0, 1}

LossArgs ==
    [t_logits : TeacherTensorArgs, t_hidden_states : TeacherTensorArgs,
     causal_t_logits : TeacherTensorArgs, causal_t_hidden_states : TeacherTensorArgs,
     s_logits : TeacherArgs, s_hidden_states : TeacherArgs,
     temperature : TemperatureArgs, restrict_ce_to_mask : BOOLEAN,
     lm_labels : LabelArgs,
     alpha_mlm : AlphaValues, alpha_clm : AlphaValues,
     alpha_mse : AlphaValues, alpha_cos : AlphaValues]

\* The signature's defaults: every tensor None, every weight 0.0.
DefaultLossArgs ==
    [t_logits |-> NoTeacher, t_hidden_states |-> NoTeacher,
     causal_t_logits |-> NoTeacher, causal_t_hidden_states |-> NoTeacher,
     s_logits |-> NoTeacher, s_hidden_states |-> NoTeacher,
     temperature |-> NoTemperature, restrict_ce_to_mask |-> FALSE,
     lm_labels |-> NotGiven,
     alpha_mlm |-> 0, alpha_clm |-> 0, alpha_mse |-> 0, alpha_cos |-> 0]

\* The loss term set: a mapping from names to values; no key, no term.
NoTerms == [k \in {} |-> 0]
NoOutputs == [returned |-> FALSE, as_dict |-> FALSE, logits |-> FALSE, terms |-> NoTerms]

\* --------------------------------------- inputs of the soft-target selection
\* A position is a row of the flattened (batch, sequence) grid; a logits tensor
\* has Vocab entries per position.
Vocabulary == 1 .. Vocab

\* Inputs: three logit rows, student logits over them, the teacher's logits.
LogitRows ==
    {[k \in Vocabulary |-> 0], [k \in Vocabulary |-> k],
     [k \in Vocabulary |-> Vocab + 1 - k]}
StudentLogits == [Rows -> LogitRows]
TeacherLogits == [r \in Rows |-> [k \in Vocabulary |-> r + k]]
\* Labels: the ignore sentinel, token id 0 or another token id per position.
LabelChoices == [Rows -> {IgnoreIndex, 0, 7}]
MaskChoices == [Rows -> {0, 1}]

NoLosses ==
    [s_logits_slct |-> << >>, t_logits_slct |-> << >>,
     loss_ce |-> [fn |-> None, s |-> << >>, t |-> << >>],
     loss_mse |-> [sum |-> 0, rows |-> 0]]

\* No soft-target scenario is running.
NoSelection ==
    [phase |-> "idle", s_logits |-> TeacherLogits, t_logits |-> TeacherLogits,
     other_s_logits |-> TeacherLogits, other_t_logits |-> TeacherLogits,
     position |-> 0, restrict_ce_to_mask |-> FALSE,
     lm_labels |-> NotGiven, attention_mask |-> NotGiven,
     first |-> NoLosses, second |-> NoLosses]

\* ------------------------------------- MultiHeadSelfAttention.prune_heads
Heads == 0 .. (NumHeads - 1)

\* A projection is known by the features it keeps: the original index of each
\* output row of q_lin, k_lin and v_lin, of each input column of out_lin.
FullProjection == [k \in 1 .. HiddenSize |-> k - 1]

\* Lines 130-141: the attention module as constructed.
FreshAttention ==
    [num_attention_heads |-> NumHeads, dim |-> HiddenSize, pruned_heads |-> {},
     q_lin |-> FullProjection, k_lin |-> FullProjection,
     v_lin |-> FullProjection, out_lin |-> FullProjection]

\* Mutant: heads pruned before are pruned again.
PruneableHeads_Unfiltered(heads, already_pruned_heads) == heads

\* find_pruneable_heads_and_indices: heads already pruned are dropped.
PruneableHeads(heads, already_pruned_heads) == heads \ already_pruned_heads

\* find_pruneable_heads_and_indices: a head's row in the mask over the heads
\* still present lies below its original index by the pruned heads before it.
ShiftedHead(head, already_pruned_heads) ==
    head - Cardinality({h \in already_pruned_heads : h < head})

\* find_pruneable_heads_and_indices: the flat positions of the (n_heads,
\* head_size) mask that stay 1, in order.
RECURSIVE KeptFrom(_, _, _, _)
KeptFrom(rows, n_heads, head_size, n) ==
    IF n >= n_heads * head_size THEN << >>
    ELSE (IF (n \div head_size) \in rows THEN << >> ELSE << n >>)
             \o KeptFrom(rows, n_heads, head_size, n + 1)

FindPruneableHeadsAndIndices(heads, n_heads, head_size, already_pruned_heads) ==
    LET pruneable == PruneableHeads(heads, already_pruned_heads)
        rows == {ShiftedHead(h, already_pruned_heads) : h \in pruneable}
    IN  [heads |-> pruneable, index |-> KeptFrom(rows, n_heads, head_size, 0)]

\* prune_linear_layer: the entries of the layer the index selects.
PruneLinearLayer(layer, index) == [j \in 1 .. Len(index) |-> layer[index[j] + 1]]

\* Mutant: the width is set to the number of heads left.
PrunedDim_HeadCount(attention_head_size, num_attention_heads) == num_attention_heads

\* Line 156: the width after pruning.
PrunedDim(attention_head_size, num_attention_heads) ==
    attention_head_size * num_attention_heads

\* Lines 143-157: prune_heads on a module; the module it leaves, and the
\* exception it raised if any.
PruneHeads(module, heads) ==
    IF module.num_attention_heads = 0
    THEN [status |-> "ZeroDivisionError", attention |-> module]
    ELSE IF heads = {} THEN [status |-> "ok", attention |-> module]
    ELSE LET attention_head_size == module.dim \div module.num_attention_heads
             found == FindPruneableHeadsAndIndices(heads, module.num_attention_heads,
                                                   attention_head_size, module.pruned_heads)
             left == module.num_attention_heads - Cardinality(found.heads)
         IN  [status |-> "ok",
              attention |->
                  [num_attention_heads |-> left,
                   dim |-> PrunedDim(attention_head_size, left),
                   pruned_heads |-> module.pruned_heads \cup found.heads,
                   q_lin |-> PruneLinearLayer(module.q_lin, found.index),
                   k_lin |-> PruneLinearLayer(module.k_lin, found.index),
                   v_lin |-> PruneLinearLayer(module.v_lin, found.index),
                   out_lin |-> PruneLinearLayer(module.out_lin, found.index)]]

\* ------------------------- DistilRobertaModel.resize_position_embeddings
PositionCounts == 1 .. MaxPositions

\* A row of the position table: trained, freshly initialised, or the
\* sinusoidal encoding of its position.
Trained(p) == [kind |-> "trained", pos |-> p]
Fresh(p) == [kind |-> "fresh", pos |-> p]
Sinusoid(p) == [kind |-> "sinusoidal", pos |-> p]

\* nn.Embedding(n, hidden_size): n freshly initialised rows.
NewEmbedding(n) == [p \in 1 .. n |-> Fresh(p - 1)]
\* Lines 70-76: row p is the encoding of position p.
SinusoidalEmbeddings(n) == [p \in 1 .. n |-> Sinusoid(p - 1)]

\* Lines 376-377: _init_weights draws every row of an nn.Embedding anew from
\* the normal distribution; these are the rows training then adjusts.
InitWeights(emb) == [emb EXCEPT !.weight = [p \in 1 .. Len(emb.weight) |-> Trained(p - 1)]]

\* Lines 86-90 and 442: the position table as the model's constructor leaves
\* it.  Embeddings.__init__ writes the sinusoidal encoding when configured;
\* init_weights() then re-initialises the table, sinusoidal or not.
InitialEmbeddings(n, sinusoidal) ==
    InitWeights([max_position_embeddings |-> n, sinusoidal_pos_embds |-> sinusoidal,
                 weight |-> IF sinusoidal THEN SinusoidalEmbeddings(n)
                            ELSE NewEmbedding(n)])

\* t[:stop]: a negative stop counts from the end.
Prefix(t, stop) ==
    LET last == IF stop < 0 THEN Len(t) + stop ELSE Min(stop, Len(t))
    IN  SubSeq(t, 1, IF last < 0 THEN 0 ELSE last)

\* Lines 462-491: resize_position_embeddings on the embeddings; the
\* embeddings it leaves, and the exception it raised if any.
ResizePositionEmbeddings(emb, new_num_position_embeddings) ==
    LET num_position_embeds_diff ==
            new_num_position_embeddings - emb.max_position_embeddings
        old_position_embeddings_weight == emb.weight
        resized == [emb EXCEPT !.max_position_embeddings = new_num_position_embeddings,
                               !.weight = NewEmbedding(new_num_position_embeddings)]
    IN  IF num_position_embeds_diff = 0
        THEN [status |-> "ok", embeddings |-> emb]
        ELSE IF emb.sinusoidal_pos_embds
        THEN [status |-> "AttributeError", embeddings |-> resized]
        ELSE IF num_position_embeds_diff > 0
        THEN IF Len(Prefix(resized.weight, 0 - num_position_embeds_diff))
                    = Len(old_position_embeddings_weight)
             THEN [status |-> "ok",
                   embeddings |->
                       [resized EXCEPT !.weight =
                           [p \in 1 .. new_num_position_embeddings |->
                               IF p <= Len(old_position_embeddings_weight)
                               THEN old_position_embeddings_weight[p]
                               ELSE resized.weight[p]]]]
             ELSE [status |-> "RuntimeError", embeddings |-> resized]
        ELSE [status |-> "ok",
              embeddings |->
                  [resized EXCEPT !.weight =
                      Prefix(old_position_embeddings_weight, num_position_embeds_diff)]]

\* The model's modules before any call on them.
NoCalls == << >>
FreshModules ==
    [attention |-> FreshAttention, embeddings |-> InitialEmbeddings(MaxPositions, FALSE)]

\* Nothing outside the forward pass is running.
OtherIdle ==
    /\ selection = NoSelection
    /\ attention = FreshModules.attention
    /\ embeddings = FreshModules.embeddings
    /\ calls = NoCalls
    /\ before = FreshModules

\* Lines 315-318: the state on entry to the layer loop.
TransformerEntry ==
    /\ hidden_state = x
    /\ all_hidden_states = << >>
    /\ all_attentions = << >>
    /\ i = 0
    /\ vi = 1
    /\ error = None
    /\ result = [returned |-> FALSE, last_hidden_state |-> x,
                 hidden_states |-> << >>, attentions |-> << >>]
    /\ block_input = << >>
    /\ block_output = << >>
    /\ layer_output = << >>
    /\ interchange_count = [l \in Layers |-> 0]
    /\ last_interchange = NoStep

InitTransformer ==
    /\ x = EmbeddingOutput
    /\ attn_mask = AllOnes
    /\ output_hidden_states \in BOOLEAN
    /\ output_attentions \in BOOLEAN
    /\ \/ /\ variable_names \in {NoNames, EmbeddingsName}
          /\ interchanged_variables = NoVariables
          /\ interchange_mask = AllFalse
          /\ dual_interchange_mask = AllFalse
       \/ /\ variable_names \in NameDicts
          /\ interchanged_variables = SuppliedVariables
          /\ interchange_mask \in Masks
          /\ dual_interchange_mask \in Masks
       \/ /\ variable_names \in NameDicts
          /\ interchanged_variables = NoVariables
          /\ interchange_mask = AllTrue
          /\ dual_interchange_mask = AllTrue
    /\ input_ids = None
    /\ inputs_embeds = None
    /\ attention_mask = Given(AllOnes)
    /\ labels = NotGiven
    /\ return_dict = TRUE
    /\ loss_args = DefaultLossArgs
    /\ caller = "Transformer"
    /\ student_outputs = NoOutputs
    /\ pc = "block"
    /\ TransformerEntry
    /\ OtherIdle

\* Mutant: a requested item is put in front of those collected so far.
Collect_InFront(requested, collected, item) ==
    IF requested THEN << item >> \o collected ELSE collected

\* Lines 320-321, 339-342 and 347-348: a requested output gains the item at its
\* end; an output not requested stays None (written << >>).
Collect(requested, collected, item) ==
    IF requested THEN Append(collected, item) ELSE collected

\* Lines 319-331: record the block's input when hidden states are requested,
\* run block i, take its output as the hidden state, and decide whether this
\* layer interchanges.
BlockStep ==
    /\ pc = "block"
    /\ i < NumLayers
    /\ all_hidden_states' = Collect(output_hidden_states, all_hidden_states, hidden_state)
    /\ hidden_state' = TransformerBlock(i, hidden_state, attn_mask)
    /\ block_input' = Append(block_input, hidden_state)
    /\ block_output' = Append(block_output, hidden_state')
    /\ vi' = 1
    /\ IF Interchanges(i)
       THEN IF interchanged_variables.kind = None
            THEN pc' = "error" /\ error' = "AssertionError"
            ELSE /\ pc' = IF Len(variable_names.list) = 0 THEN "attentions" ELSE "interchange"
                 /\ error' = error
       ELSE pc' = "attentions" /\ error' = error
    /\ last_interchange' = NoStep
    /\ UNCHANGED << x, attn_mask, output_hidden_states, output_attentions,
                    interchanged_variables, variable_names, interchange_mask,
                    dual_interchange_mask, all_attentions, i, result, layer_output,
                    interchange_count, lm_vars >>
    /\ UNCHANGED other_vars

\* Lines 332-337: one iteration of the loop over the layer's variables.
InterchangeStep ==
    /\ pc = "interchange"
    /\ LET interchanged_variable == variable_names.list[vi]
           interchanged_activations == interchanged_variables.map[interchanged_variable.name]
           replacing_activations == MaskedRows(interchanged_activations, dual_interchange_mask)
           wv == ValueWidth(interchanged_activations)
       IN  /\ interchange_count' = [interchange_count EXCEPT ![i] = @ + 1]
           /\ IF AssignOk(interchanged_variable, interchange_mask, replacing_activations, wv)
              THEN /\ hidden_state' = Assigned(hidden_state, interchanged_variable,
                                               interchange_mask, replacing_activations, wv)
                   /\ last_interchange' =
                          [done |-> TRUE, layer |-> i, ref |-> interchanged_variable,
                           pre |-> hidden_state,
                           written |-> AssignedCells(interchanged_variable, interchange_mask)]
                   /\ IF vi = Len(variable_names.list)
                      THEN pc' = "attentions" /\ vi' = vi
                      ELSE pc' = pc /\ vi' = vi + 1
                   /\ error' = error
              ELSE /\ pc' = "error"
                   /\ error' = "RuntimeError: shape mismatch"
                   /\ UNCHANGED << hidden_state, last_interchange, vi >>
    /\ UNCHANGED << x, attn_mask, output_hidden_states, output_attentions,
                    interchanged_variables, variable_names, interchange_mask,
                    dual_interchange_mask, all_hidden_states, all_attentions, i, result,
                    block_input, block_output, layer_output, lm_vars >>
    /\ UNCHANGED other_vars

\* Lines 339-344: collect the block's attention weights; the iteration ends.
AttentionsStep ==
    /\ pc = "attentions"
    /\ all_attentions' = Collect(output_attentions, all_attentions, i)
    /\ layer_output' = Append(layer_output, hidden_state)
    /\ i' = i + 1
    /\ pc' = IF i + 1 < NumLayers THEN "block" ELSE "return"
    /\ last_interchange' = NoStep
    /\ UNCHANGED << x, attn_mask, output_hidden_states, output_attentions,
                    interchanged_variables, variable_names, interchange_mask,
                    dual_interchange_mask, hidden_state, all_hidden_states, vi, error,
                    result, block_input, block_output, interchange_count, lm_vars >>
    /\ UNCHANGED other_vars

\* Lines 346-354: append the last layer's state and return.
ReturnStep ==
    /\ pc = "return"
    /\ all_hidden_states' = Collect(output_hidden_states, all_hidden_states, hidden_state)
    /\ result' = [returned |-> TRUE, last_hidden_state |-> hidden_state,
                  hidden_states |-> all_hidden_states', attentions |-> all_attentions]
    /\ pc' = IF caller = "Transformer" THEN "done" ELSE "head"
    /\ UNCHANGED << x, attn_mask, output_hidden_states, output_attentions,
                    interchanged_variables, variable_names, interchange_mask,
                    dual_interchange_mask, hidden_state, all_attentions, i, vi, error,
                    block_input, block_output, layer_output, interchange_count,
                    last_interchange, lm_vars >>
    /\ UNCHANGED other_vars

NextTransformer == BlockStep \/ InterchangeStep \/ AttentionsStep \/ ReturnStep

Spec == InitTransformer /\ [][NextTransformer]_vars

\* ------------------------------------ DistilRobertaForMaskedLM.forward
\* The interchange specification of the toy scenario: at layer 0, head 0's
\* full width, every row paired with the same row of the donor batch.
FullHeadNames ==
    [kind |-> "dict", keys |-> {0},
     list |-> << [name |-> HeadDim, head |-> 0, start |-> 0, stop |-> HeadDim] >>]

\* Every combination of the call's arguments without an interchange
\* specification; the interchange scenario with token ids and a full
\* attention mask.
InitMaskedLM ==
    /\ input_ids \in {None, "ids"}
    /\ inputs_embeds \in {None, "embeds"}
    /\ attention_mask \in AttentionMasks
    /\ labels \in LabelArgs
    /\ return_dict \in BOOLEAN
    /\ output_hidden_states \in BOOLEAN
    /\ output_attentions = FALSE
    /\ \/ /\ variable_names = NoNames
          /\ interchanged_variables = NoVariables
          /\ interchange_mask = AllFalse
          /\ dual_interchange_mask = AllFalse
       \/ /\ variable_names = FullHeadNames
          /\ interchanged_variables = SuppliedVariables
          /\ interchange_mask = AllTrue
          /\ dual_interchange_mask = AllTrue
          /\ input_ids # None
          /\ inputs_embeds = None
          /\ attention_mask = Given(AllOnes)
    /\ loss_args = DefaultLossArgs
    /\ caller = "MaskedLM"
    /\ student_outputs = NoOutputs
    /\ x = EmbeddingOutput
    /\ attn_mask = AllOnes
    /\ pc = "model"
    /\ TransformerEntry
    /\ OtherIdle

\* Mutant: only supplying both inputs is rejected.
InputsRejected_BothOnly(ids, embeds) == ids # None /\ embeds # None

\* Lines 535-542: both inputs, or neither, raise ValueError.
InputsRejected(ids, embeds) ==
    IF ids # None /\ embeds # None THEN TRUE
    ELSE IF ids # None THEN FALSE
    ELSE IF embeds # None THEN FALSE
    ELSE TRUE

\* DistilRobertaModel.forward, lines 529-568: exactly one of input_ids and
\* inputs_embeds, the attention mask's default, the embeddings; then the
\* encoder runs.
ModelForwardStep ==
    /\ pc = "model"
    /\ IF InputsRejected(input_ids, inputs_embeds)
       THEN /\ pc' = "error"
            /\ error' = "ValueError"
            /\ UNCHANGED << x, attn_mask, hidden_state, result >>
       ELSE /\ x' = IF inputs_embeds = None THEN EmbeddingOutput ELSE PrecomputedEmbeds
            /\ attn_mask' = IF attention_mask.given THEN attention_mask.value ELSE AllOnes
            /\ hidden_state' = x'
            /\ result' = [result EXCEPT !.last_hidden_state = x']
            /\ pc' = "block"
            /\ error' = error
    /\ UNCHANGED << output_hidden_states, output_attentions, interchanged_variables,
                    variable_names, interchange_mask, dual_interchange_mask,
                    all_hidden_states, all_attentions, i, vi, block_input, block_output,
                    layer_output, interchange_count, last_interchange, lm_vars >>
    /\ UNCHANGED other_vars

\* A loss value: the loss function applied, and the rows that enter it.
LossValue(fn, over) == [fn |-> fn, over |-> over]
Put(terms, k, v) == (k :> v) @@ terms

\* Mutant: token id 0 counts as no label.
LabelMask_Positive(lbl) == [r \in Rows |-> lbl[r] > 0]

\* (lm_labels > -1): the rows with a label.
LabelMask(lbl) == [r \in Rows |-> lbl[r] > 0 - 1]
\* The rows a cross-entropy with ignore_index=-100 averages over.
NotIgnored(lbl) == [r \in Rows |-> lbl[r] # IgnoreIndex]
\* Lines 736-738: shift_logits drops the last position and shift_labels the
\* first, so a position enters the cross-entropy with the label of the next
\* position and the last position never enters.  The rows are read as the
\* positions of one sequence.
ShiftedNotIgnored(lbl) ==
    [r \in Rows |-> r + 1 < BatchSize /\ lbl[r + 1] # IgnoreIndex]
\* The rows masked_select keeps under an attention mask.
AttentionSelected(am) == [r \in Rows |-> am[r] = 1]

\* Mutant: without labels the masked-LM loss is reported as a zero placeholder.
MlmLossTerms_ZeroDefault(lbls) ==
    Put(NoTerms, "loss",
        LossValue(IF lbls.given THEN "CrossEntropy(prediction_logits, labels)" ELSE "zero",
                  NotIgnored(lbls.value)))

\* Lines 684-686: the masked-LM loss against the gold labels, when given.
MlmLossTerms(lbls) ==
    IF lbls.given
    THEN Put(NoTerms, "loss", LossValue("CrossEntropy(prediction_logits, labels)",
                                        NotIgnored(lbls.value)))
    ELSE NoTerms

\* An exception leaves in student_outputs the terms stored before it.
Raise(e, stored) == [error |-> e, terms |-> stored]
Completed(terms) == [error |-> None, terms |-> terms]

\* Lines 708-711 and 774-777: the rows the soft-target loss selects.
SelectionMask(a, am) ==
    IF a.restrict_ce_to_mask THEN LabelMask(a.lm_labels.value)
    ELSE AttentionSelected(am.value)

\* Lines 732-739: the weight-gated LM cross-entropies.
LmTerms(a, terms) ==
    LET withMlm ==
            IF a.alpha_mlm > 0
            THEN Put(terms, "loss_mlm",
                     LossValue("CrossEntropy(s_logits, lm_labels)",
                               NotIgnored(a.lm_labels.value)))
            ELSE terms
    IN  IF a.alpha_clm > 0
        THEN Put(withMlm, "loss_mlm",
                 LossValue("CrossEntropy(shift_logits, shift_labels)",
                           ShiftedNotIgnored(a.lm_labels.value)))
        ELSE withMlm

\* Lines 740-744: the elementwise term.
MseTerms(a, am, terms) ==
    IF a.alpha_mse > 0
    THEN Put(terms, "loss_mse", LossValue("MSE(s_logits_slct, t_logits_slct)",
                                          SelectionMask(a, am)))
    ELSE terms

\* Lines 745-759: the cosine term over the rows the attention mask selects.
CosTerms(a, am, terms) ==
    IF a.alpha_cos > 0
    THEN Put(terms, "loss_cos", LossValue("Cosine(s_hidden_states, t_hidden_states)",
                                          AttentionSelected(am.value)))
    ELSE terms

\* Mutant: every teacher tensor passes for the student's size.
SameSize_Unchecked(t) == TRUE

\* Lines 705, 749, 771 and 801: a teacher tensor has the size of the student's.
SameSize(t) == t.shape = StudentShape

\* Mutant: the teacher's hidden states are required only with a cosine weight.
NonCausalInputsGiven_WhenCosine(a) == a.alpha_cos > 0 => a.t_hidden_states.given

\* Line 702: with teacher logits, the teacher's hidden states are required.
NonCausalInputsGiven(a) == a.t_hidden_states.given

\* Lines 763-767: the inputs the causal branch requires.
CausalInputsGiven(a) ==
    /\ a.t_logits.given
    /\ a.t_hidden_states.given
    /\ a.s_logits.given
    /\ a.s_hidden_states.given
    /\ a.causal_t_hidden_states.given

\* Lines 701-759: the non-causal branch, in evaluation order.
NonCausalLoss(a, terms, am, ohs) ==
    LET withCe == Put(terms, "loss_ce",
                      LossValue("KLDiv(s_logits_slct, t_logits_slct)",
                                SelectionMask(a, am)))
        withMse == MseTerms(a, am, LmTerms(a, withCe))
    IN  IF ~a.t_logits.given THEN Completed(terms)
        ELSE IF ~NonCausalInputsGiven(a) THEN Raise("AssertionError", terms)
        ELSE IF ~ohs THEN Raise("KeyError", terms)
        ELSE IF ~SameSize(a.t_logits) THEN Raise("AssertionError", terms)
        ELSE IF a.restrict_ce_to_mask /\ ~a.lm_labels.given THEN Raise("TypeError", terms)
        ELSE IF ~a.restrict_ce_to_mask /\ ~am.given THEN Raise("AttributeError", terms)
        ELSE IF ~a.temperature.given THEN Raise("TypeError", terms)
        ELSE IF (a.alpha_mlm > 0 \/ a.alpha_clm > 0) /\ ~a.lm_labels.given
             THEN Raise(IF a.alpha_mlm > 0 THEN "AttributeError" ELSE "TypeError", withCe)
        ELSE IF a.alpha_cos > 0 /\ ~am.given THEN Raise("AttributeError", withMse)
        ELSE IF a.alpha_cos > 0 /\ ~SameSize(a.t_hidden_states)
             THEN Raise("AssertionError", withMse)
        ELSE Completed(CosTerms(a, am, withMse))

\* Lines 788-796: the causal soft-target term.
CausalCeTerms(a, am, terms) ==
    Put(terms, "causal_loss_ce",
        LossValue("KLDiv(causal_s_logits_slct, causal_t_logits_slct)",
                  SelectionMask(a, am)))

\* Mutant: the causal branch stores its terms under the non-causal names.
CausalTerms_SharedNames(a, am, terms) ==
    Put(Put(terms, "loss_ce",
            LossValue("KLDiv(causal_s_logits_slct, causal_t_logits_slct)",
                      SelectionMask(a, am))),
        "loss_cos",
        LossValue("Cosine(causal_s_hidden_states, causal_t_hidden_states)",
                  AttentionSelected(am.value)))

\* Lines 788-811: the two causal terms.
CausalTerms(a, am, terms) ==
    Put(CausalCeTerms(a, am, terms),
        "causal_loss_cos",
        LossValue("Cosine(causal_s_hidden_states, causal_t_hidden_states)",
                  AttentionSelected(am.value)))

\* Lines 761-811: the causal branch, in evaluation order.
CausalLoss(a, terms, am, ohs) ==
    IF ~CausalInputsGiven(a) THEN Raise("AssertionError", terms)
    ELSE IF ~ohs THEN Raise("KeyError", terms)
    ELSE IF ~SameSize(a.causal_t_logits) THEN Raise("AssertionError", terms)
    ELSE IF a.restrict_ce_to_mask /\ ~a.lm_labels.given THEN Raise("TypeError", terms)
    ELSE IF ~a.restrict_ce_to_mask /\ ~am.given THEN Raise("AttributeError", terms)
    ELSE IF ~a.temperature.given THEN Raise("TypeError", terms)
    ELSE IF ~am.given THEN Raise("AttributeError", CausalCeTerms(a, am, terms))
    ELSE IF ~SameSize(a.causal_t_hidden_states)
         THEN Raise("AssertionError", CausalCeTerms(a, am, terms))
    ELSE Completed(CausalTerms(a, am, terms))

\* Lines 699-813: the distillation loss composer.
LossComposer(a, terms, am, ohs) ==
    IF ~a.causal_t_logits.given
    THEN NonCausalLoss(a, terms, am, ohs)
    ELSE CausalLoss(a, terms, am, ohs)

\* Mutant: the tuple is never returned early.
ReturnsTuple_Never(rd) == FALSE

\* Lines 688-690: without return_dict the tuple is returned before the loss
\* composer.
ReturnsTuple(rd) == ~rd

\* Lines 678-697: the prediction head, the masked-LM loss and, when
\* return_dict is false, the tuple returned at once.  The arguments only the
\* loss composer reads are drawn here, where the encoder has returned.
HeadStep ==
    /\ pc = "head"
    /\ \E a \in LossArgs : loss_args' = a
    /\ IF ReturnsTuple(return_dict)
       THEN /\ student_outputs' = [returned |-> TRUE, as_dict |-> FALSE, logits |-> TRUE,
                                   terms |-> MlmLossTerms(labels)]
            /\ pc' = "done"
       ELSE /\ student_outputs' = [returned |-> FALSE, as_dict |-> TRUE, logits |-> TRUE,
                                   terms |-> MlmLossTerms(labels)]
            /\ pc' = "compose"
    /\ UNCHANGED << x, attn_mask, output_hidden_states, output_attentions,
                    interchanged_variables, variable_names, interchange_mask,
                    dual_interchange_mask, hidden_state, all_hidden_states,
                    all_attentions, i, vi, error, result, block_input, block_output,
                    layer_output, interchange_count, last_interchange, input_ids,
                    inputs_embeds, attention_mask, labels, return_dict, caller >>
    /\ UNCHANGED other_vars

\* Lines 699-813: the loss composer extends the student outputs, or raises.
ComposeStep ==
    /\ pc = "compose"
    /\ LET out == LossComposer(loss_args, student_outputs.terms, attention_mask,
                               output_hidden_states)
       IN  IF out.error = None
           THEN /\ student_outputs' = [student_outputs EXCEPT !.returned = TRUE,
                                                              !.terms = out.terms]
                /\ pc' = "done"
                /\ error' = error
           ELSE /\ pc' = "error"
                /\ error' = out.error
                /\ student_outputs' = [student_outputs EXCEPT !.terms = out.terms]
    /\ UNCHANGED << x, attn_mask, output_hidden_states, output_attentions,
                    interchanged_variables, variable_names, interchange_mask,
                    dual_interchange_mask, hidden_state, all_hidden_states,
                    all_attentions, i, vi, result, block_input, block_output,
                    layer_output, interchange_count, last_interchange, input_ids,
                    inputs_embeds, attention_mask, labels, return_dict, loss_args,
                    caller >>
    /\ UNCHANGED other_vars

NextMaskedLM ==
    \/ ModelForwardStep
    \/ BlockStep
    \/ InterchangeStep
    \/ AttentionsStep
    \/ ReturnStep
    \/ HeadStep
    \/ ComposeStep

SpecLM == InitMaskedLM /\ [][NextMaskedLM]_vars

\* ------------------------------------- the selection of the soft-target loss
\* Lines 708-729 and 740-744 on concrete logits.
\* unsqueeze(-1).expand_as(s_logits): a position's mask entry, repeated over
\* the vocabulary.
ExpandAs(mask) == [r \in Rows |-> [k \in Vocabulary |-> mask[r]]]

\* torch.masked_select: the entries the mask marks, flattened in row-major
\* order.
RECURSIVE MaskedSelectFrom(_, _, _)
MaskedSelectFrom(t, mask, n) ==
    IF n >= BatchSize * Vocab THEN << >>
    ELSE LET r == n \div Vocab
             k == (n % Vocab) + 1
         IN  (IF mask[r][k] THEN << t[r][k] >> ELSE << >>)
                 \o MaskedSelectFrom(t, mask, n + 1)

MaskedSelect(t, mask) == MaskedSelectFrom(t, mask, 0)

\* view(-1, width): consecutive runs of width entries become the rows.
View(flat, width) ==
    [j \in 1 .. (Len(flat) \div width) |->
        [k \in 1 .. width |-> flat[(j - 1) * width + k]]]

\* Lines 712-719: the selected logits, one row per selected position.
LogitsSlct(t, mask) == View(MaskedSelect(t, ExpandAs(mask)), Vocab)

\* nn.MSELoss(reduction="sum") over the selected rows.
RECURSIVE SquaredError(_, _, _)
SquaredError(s_slct, t_slct, n) ==
    IF n >= Len(s_slct) * Vocab THEN 0
    ELSE LET j == (n \div Vocab) + 1
             k == (n % Vocab) + 1
             d == s_slct[j][k] - t_slct[j][k]
         IN  d * d + SquaredError(s_slct, t_slct, n + 1)

\* Lines 712-729 and 740-744: both selections and both loss values.  The
\* soft-target loss is a function of the two selections and the temperature;
\* the elementwise loss is the summed squared error over the row count.
SoftTargetLosses(s, t, a, am) ==
    LET mask == SelectionMask(a, am)
        s_logits_slct == LogitsSlct(s, mask)
        t_logits_slct == LogitsSlct(t, mask)
    IN  [s_logits_slct |-> s_logits_slct,
         t_logits_slct |-> t_logits_slct,
         loss_ce |-> [fn |-> "KLDiv(log_softmax(s/T), softmax(t/T)) * T^2",
                      s |-> s_logits_slct, t |-> t_logits_slct],
         loss_mse |-> [sum |-> SquaredError(s_logits_slct, t_logits_slct, 0),
                       rows |-> Len(s_logits_slct)]]

\* ----------------------------------------- the soft-target loss, twice
\* The forward pass is not running.
IdleForward ==
    /\ x = EmbeddingOutput
    /\ attn_mask = AllOnes
    /\ output_hidden_states = FALSE
    /\ output_attentions = FALSE
    /\ variable_names = NoNames
    /\ interchanged_variables = NoVariables
    /\ interchange_mask = AllFalse
    /\ dual_interchange_mask = AllFalse
    /\ input_ids = None
    /\ inputs_embeds = None
    /\ attention_mask = NotGiven
    /\ labels = NotGiven
    /\ return_dict = TRUE
    /\ loss_args = DefaultLossArgs
    /\ caller = None
    /\ student_outputs = NoOutputs
    /\ pc = "idle"
    /\ TransformerEntry

\* Two calls in non-causal mode with teacher logits: the second call's student
\* and teacher logits differ from the first call's at one position only.
InitSelection ==
    /\ \E s \in StudentLogits, p \in Rows, vs \in LogitRows, vt \in LogitRows,
          restrict \in BOOLEAN, lbl \in LabelChoices, am \in MaskChoices :
          /\ restrict => am = AllOnes
          /\ ~restrict => lbl = SomeLabels
          /\ selection =
                 [phase |-> "input", s_logits |-> s, t_logits |-> TeacherLogits,
                  other_s_logits |-> [s EXCEPT ![p] = vs],
                  other_t_logits |-> [TeacherLogits EXCEPT ![p] = vt],
                  position |-> p, restrict_ce_to_mask |-> restrict,
                  lm_labels |-> Given(lbl), attention_mask |-> Given(am),
                  first |-> NoLosses, second |-> NoLosses]
    /\ attention = FreshModules.attention
    /\ embeddings = FreshModules.embeddings
    /\ calls = NoCalls
    /\ before = FreshModules
    /\ IdleForward

\* Lines 708-744 in both calls.
SelectStep ==
    /\ selection.phase = "input"
    /\ selection' =
           [selection EXCEPT
               !.phase = "done",
               !.first = SoftTargetLosses(selection.s_logits, selection.t_logits,
                                          selection, selection.attention_mask),
               !.second = SoftTargetLosses(selection.other_s_logits,
                                           selection.other_t_logits,
                                           selection, selection.attention_mask)]
    /\ UNCHANGED << attention, embeddings, calls, before, forward_vars >>

NextSelection == SelectStep

SpecSelection == InitSelection /\ [][NextSelection]_vars

\* ------------------------------------- calls that change the model's modules
\* A model whose position table is learned or sinusoidal, with any number of
\* positions.
InitModules ==
    /\ attention = FreshAttention
    /\ \E n \in PositionCounts, sinusoidal \in BOOLEAN :
          embeddings = InitialEmbeddings(n, sinusoidal)
    /\ calls = NoCalls
    /\ before = [attention |-> attention, embeddings |-> embeddings]
    /\ selection = NoSelection
    /\ IdleForward

\* Lines 499-505 and 143-157: prune_heads on the attention module.
PruneHeadsStep ==
    /\ Len(calls) < MaxCalls
    /\ \E heads \in SUBSET Heads :
          LET out == PruneHeads(attention, heads)
          IN  /\ attention' = out.attention
              /\ calls' = Append(calls, [op |-> "prune_heads", heads |-> heads, n |-> 0,
                                         status |-> out.status])
    /\ before' = [attention |-> attention, embeddings |-> embeddings]
    /\ UNCHANGED << embeddings, selection, forward_vars >>

\* Lines 450-491: resize_position_embeddings.
ResizeStep ==
    /\ Len(calls) < MaxCalls
    /\ \E n \in PositionCounts :
          LET out == ResizePositionEmbeddings(embeddings, n)
          IN  /\ embeddings' = out.embeddings
              /\ calls' = Append(calls, [op |-> "resize_position_embeddings",
                                         heads |-> {}, n |-> n, status |-> out.status])
    /\ before' = [attention |-> attention, embeddings |-> embeddings]
    /\ UNCHANGED << attention, selection, forward_vars >>

NextModules == PruneHeadsStep \/ ResizeStep

SpecModules == InitModules /\ [][NextModules]_vars

\* ===================================================== claims, under Spec
\* The number of rows each interchange mask marks.
DestCount == Len(MarkedRows(interchange_mask))
DonorCount == Len(MarkedRows(dual_interchange_mask))
RangeLength(v) == v.stop - v.start

\* The hidden states of a forward pass that interchanges nothing: the
\* embedding output, then each block's output.
RECURSIVE PlainStates(_)
PlainStates(l) ==
    IF l = 0 THEN << x >>
    ELSE Append(PlainStates(l - 1),
                TransformerBlock(l - 1, PlainStates(l - 1)[l], attn_mask))

\* C1: an interchange step assigns, in every row the destination mask marks,
\* exactly the columns head*head_dimension + start up to (not including)
\* head*head_dimension + start + (stop - start), and no other cell.
C1_WritesExactlyTheRange ==
    last_interchange.done =>
        last_interchange.written =
            {<< MarkedRows(interchange_mask)[j], c >> :
                j \in 1 .. DestCount,
                c \in start_index(last_interchange.ref) ..
                      (start_index(last_interchange.ref)
                         + RangeLength(last_interchange.ref) - 1)}

\* C2: when both masks mark the same number of rows, an interchange step
\* leaves the addressed range of the j-th marked destination row equal to the
\* j-th marked donor row (entry by entry; a one-entry donor row fills the
\* range), leaves every unmarked row as it was, and leaves the stored
\* activations as supplied.
C2_PairedByOrder ==
    (last_interchange.done /\ DestCount = DonorCount)
    => LET v == last_interchange.ref
           donor == interchanged_variables.map[v.name]
       IN  /\ \A j \in 1 .. DestCount : \A o \in 0 .. (RangeLength(v) - 1) :
                 hidden_state[MarkedRows(interchange_mask)[j]][start_index(v) + o]
                     = donor[MarkedRows(dual_interchange_mask)[j]]
                            [IF ValueWidth(donor) = 1 THEN 1 ELSE o + 1]
           /\ \A r \in Rows :
                 ~interchange_mask[r] => hidden_state[r] = last_interchange.pre[r]
           /\ interchanged_variables = SuppliedVariables

\* C2 witness: an interchange that pairs different rows of the two batches,
\* over a head's full width.
C2_Witness ==
    /\ last_interchange.done
    /\ DestCount = DonorCount
    /\ DestCount >= 1
    /\ interchange_mask # dual_interchange_mask
    /\ last_interchange.ref.start = 0
    /\ last_interchange.ref.stop = HeadDim
    /\ last_interchange.ref.name = HeadDim

\* C3: an interchange whose masks mark different numbers of rows fails the
\* forward call: it ends in an error and nothing is returned.
C3_MismatchRaises ==
    (/\ \E l \in Layers : interchange_count[l] > 0
     /\ DestCount # DonorCount)
    => (pc = "error" /\ ~result.returned)

\* C4: the interchange of a layer runs once, on the block's output, and its
\* result is what the next block consumes and what the last layer returns.
C4_SwapFeedsNextBlock ==
    /\ \A l \in 1 .. Len(block_input) :
          /\ block_output[l] = TransformerBlock(l - 1, block_input[l], attn_mask)
          /\ l >= 2 => block_input[l] = layer_output[l - 1]
    /\ \A l \in 1 .. Len(layer_output) :
          /\ interchange_count[l - 1] =
                 IF Interchanges(l - 1) THEN Len(variable_names.list) ELSE 0
          /\ Interchanges(l - 1) =>
                 \A j \in 1 .. DestCount : \A c \in Cols :
                     (\E n \in 1 .. Len(variable_names.list) :
                          /\ c >= start_index(variable_names.list[n])
                          /\ c < start_index(variable_names.list[n])
                                   + RangeLength(variable_names.list[n]))
                     => layer_output[l][MarkedRows(interchange_mask)[j]][c] < 0
    /\ result.returned =>
          /\ Len(layer_output) = NumLayers
          /\ result.last_hidden_state = layer_output[NumLayers]

\* C4 witness: a returned forward pass that interchanged at layer 0, before
\* the last block ran.
C4_Witness ==
    /\ result.returned
    /\ Interchanges(0)
    /\ ~Interchanges(NumLayers - 1)
    /\ DestCount >= 1
    /\ layer_output[1] # block_output[1]

\* C5: a forward pass with no specification, with no layer named, or with
\* both masks all false runs to its return, and its final state and recorded
\* hidden states are those of a pass that interchanges nothing; a layer that
\* is not named passes its block's output on untouched.
C5_NothingSelected ==
    /\ \A l \in 1 .. Len(layer_output) :
          ~Interchanges(l - 1) => layer_output[l] = block_output[l]
    /\ (/\ pc \in {"done", "error"}
        /\ \/ variable_names.kind # "dict"
           \/ variable_names.keys = {}
           \/ (interchange_mask = AllFalse /\ dual_interchange_mask = AllFalse))
       => /\ result.returned
          /\ result.last_hidden_state = PlainStates(NumLayers)[NumLayers + 1]
          /\ result.hidden_states =
                 IF output_hidden_states THEN PlainStates(NumLayers) ELSE << >>

\* C17: a returned encoder result has, when hidden states are requested, a
\* list of NumLayers + 1 states whose entry 0 is the embedding output and
\* whose entry l + 1 is block l's output tensor as it stands when layer l's
\* iteration ends (the block's computed output wherever layer l ran no
\* interchange step), the last entry being the final hidden state; when
\* attentions are requested, the attentions of the NumLayers blocks in block
\* order; a list not requested is omitted.
C17_OutputLists ==
    (caller = "Transformer" /\ result.returned) =>
        /\ output_hidden_states =>
               /\ Len(result.hidden_states) = NumLayers + 1
               /\ result.hidden_states[1] = x
               /\ \A l \in Layers :
                      /\ result.hidden_states[l + 2] = layer_output[l + 1]
                      /\ interchange_count[l] = 0 =>
                             result.hidden_states[l + 2] = block_output[l + 1]
               /\ result.hidden_states[NumLayers + 1] = result.last_hidden_state
        /\ ~output_hidden_states => result.hidden_states = << >>
        /\ output_attentions =>
               /\ Len(result.attentions) = NumLayers
               /\ \A l \in Layers : result.attentions[l + 1] = l
        /\ ~output_attentions => result.attentions = << >>

\* A call that requested both lists and interchanged at some layer has
\* returned.
C17_Witness ==
    /\ caller = "Transformer"
    /\ result.returned
    /\ output_hidden_states
    /\ output_attentions
    /\ \E l \in Layers : interchange_count[l] > 0

\* =================================================== claims, under SpecLM
\* The call returned its student outputs as a mapping (return_dict true).
ReturnedDict == student_outputs.returned /\ student_outputs.as_dict
Terms == student_outputs.terms
CausalMode == loss_args.causal_t_logits.given
CausalNames == {"causal_loss_ce", "causal_loss_cos"}
NonCausalNames == {"loss_ce", "loss_mlm", "loss_clm", "loss_mse", "loss_cos"}
\* The loss functions whose values are among the returned terms.
ReturnedFns == {Terms[k].fn : k \in DOMAIN Terms}
MlmFn == "CrossEntropy(s_logits, lm_labels)"
ClmFn == "CrossEntropy(shift_logits, shift_labels)"
MseFn == "MSE(s_logits_slct, t_logits_slct)"
CosFn == "Cosine(s_hidden_states, t_hidden_states)"
CausalCosFn == "Cosine(causal_s_hidden_states, causal_t_hidden_states)"

\* C6: in both modes a term whose weight is zero is not computed: its value is
\* not among the returned loss terms, under any name.
C6_ZeroWeightAbsent ==
    ReturnedDict =>
        /\ loss_args.alpha_mlm = 0 => MlmFn \notin ReturnedFns
        /\ loss_args.alpha_clm = 0 => ClmFn \notin ReturnedFns
        /\ loss_args.alpha_mse = 0 => MseFn \notin ReturnedFns
        /\ loss_args.alpha_cos = 0 =>
               (CosFn \notin ReturnedFns /\ CausalCosFn \notin ReturnedFns)

\* C7: in non-causal mode with teacher logits and both LM weights positive,
\* the returned terms hold the masked-LM and the causal-LM cross-entropy under
\* two distinct names.
C7_DistinctLmNames ==
    (/\ ReturnedDict
     /\ ~CausalMode
     /\ loss_args.t_logits.given
     /\ loss_args.alpha_mlm > 0
     /\ loss_args.alpha_clm > 0)
    => \E k1, k2 \in DOMAIN Terms :
           /\ k1 # k2
           /\ Terms[k1].fn = MlmFn
           /\ Terms[k2].fn = ClmFn

\* The outcome of the loss composer had the call passed an all-ones attention
\* mask.
WithExplicitOnes ==
    LossComposer(loss_args, MlmLossTerms(labels), Given(AllOnes), output_hidden_states)

\* C8: a call that omits the attention mask, and that completes when given an
\* explicit all-ones mask, completes too and returns the same loss terms.
C8_MaskDefaultsToOnes ==
    (/\ caller = "MaskedLM"
     /\ student_outputs.as_dict
     /\ pc \in {"done", "error"}
     /\ ~attention_mask.given
     /\ WithExplicitOnes.error = None)
    => (pc = "done" /\ Terms = WithExplicitOnes.terms)

\* C9: in causal mode the composer adds exactly the two causal terms and no
\* non-causal term, whatever the weights; in non-causal mode it adds no
\* causal term.  The masked-LM loss against the gold labels, computed before
\* the composer, is as the head left it.
C9_CausalTermsOnly ==
    ReturnedDict =>
        /\ CausalMode =>
              /\ DOMAIN Terms \ DOMAIN MlmLossTerms(labels) = CausalNames
              /\ DOMAIN Terms \cap NonCausalNames = {}
              /\ Terms["causal_loss_ce"].fn
                     = "KLDiv(causal_s_logits_slct, causal_t_logits_slct)"
              /\ Terms["causal_loss_cos"].fn
                     = "Cosine(causal_s_hidden_states, causal_t_hidden_states)"
        /\ ~CausalMode => DOMAIN Terms \cap CausalNames = {}
        /\ \A k \in DOMAIN MlmLossTerms(labels) :
              k \in DOMAIN Terms /\ Terms[k] = MlmLossTerms(labels)[k]

\* C9 witness: a causal-mode call that returned, with every weight positive.
C9_Witness ==
    /\ ReturnedDict
    /\ CausalMode
    /\ loss_args.alpha_mlm > 0
    /\ loss_args.alpha_clm > 0
    /\ loss_args.alpha_mse > 0
    /\ loss_args.alpha_cos > 0
    /\ labels.given

NoTeacherSignals ==
    /\ ~loss_args.t_logits.given
    /\ ~loss_args.t_hidden_states.given
    /\ ~loss_args.causal_t_logits.given
    /\ ~loss_args.causal_t_hidden_states.given

OneInputGiven == (input_ids = None) # (inputs_embeds = None)

\* C10: given one of token ids and embeddings, a call with no labels, no
\* teacher signals and no interchange specification never fails, interchanges
\* nothing and returns no loss term; with labels and no teacher signals the
\* masked-LM loss is the only term returned.
C10_AbsentInputsSkip ==
    (caller = "MaskedLM" /\ OneInputGiven /\ NoTeacherSignals) =>
        /\ (~labels.given /\ variable_names.kind = None) =>
              /\ pc # "error"
              /\ \A l \in Layers : interchange_count[l] = 0
              /\ Terms = NoTerms
              /\ pc = "done" =>
                    /\ student_outputs.returned
                    /\ result.last_hidden_state = PlainStates(NumLayers)[NumLayers + 1]
        /\ (labels.given /\ pc = "done") =>
              /\ student_outputs.returned
              /\ DOMAIN Terms = {"loss"}
              /\ Terms["loss"].fn = "CrossEntropy(prediction_logits, labels)"

\* C10 witness: a returned call with no attention mask, no labels, no teacher
\* signal, no temperature and no interchange specification.
C10_Witness ==
    /\ caller = "MaskedLM"
    /\ pc = "done"
    /\ student_outputs.returned
    /\ student_outputs.as_dict
    /\ NoTeacherSignals
    /\ ~labels.given
    /\ ~attention_mask.given
    /\ ~loss_args.temperature.given
    /\ variable_names.kind = None

\* C13: when both or neither of token ids and embeddings are supplied, the
\* call fails with ValueError before any block or interchange has run and
\* before the encoder is handed an input; when exactly one is supplied the
\* input check never fails and the encoder runs its first block.
C13_ExactlyOneInput ==
    caller = "MaskedLM" =>
        /\ ~OneInputGiven =>
               /\ pc \in {"model", "error"}
               /\ pc = "error" => error = "ValueError"
               /\ block_input = << >>
               /\ block_output = << >>
               /\ \A l \in Layers : interchange_count[l] = 0
               /\ student_outputs = NoOutputs
               /\ ~result.returned
        /\ OneInputGiven =>
               /\ error # "ValueError"
               /\ pc \notin {"model", "block"} => Len(block_input) >= 1
               /\ pc # "model" =>
                      x = IF inputs_embeds = None THEN EmbeddingOutput
                          ELSE PrecomputedEmbeds

\* A call given neither input has failed.
C13_Witness ==
    /\ caller = "MaskedLM"
    /\ input_ids = None
    /\ inputs_embeds = None
    /\ pc = "error"
    /\ error = "ValueError"

\* The loss composer has run to its end or to an exception.
ComposerRan ==
    /\ caller = "MaskedLM"
    /\ return_dict
    /\ student_outputs.logits
    /\ pc \in {"done", "error"}

\* The distillation terms stored in the student outputs.
StoredDistillation == DOMAIN student_outputs.terms \cap (CausalNames \cup NonCausalNames)

FailedBeforeAnyTerm ==
    /\ pc = "error"
    /\ error = "AssertionError"
    /\ ~student_outputs.returned
    /\ StoredDistillation = {}

\* C19: the loss composer checks its required inputs first: in non-causal mode
\* teacher logits without teacher hidden states fail the call, whatever the
\* cosine weight; in causal mode the call fails unless t_logits,
\* t_hidden_states, s_logits, s_hidden_states and causal_t_hidden_states are
\* all supplied; in each of these cases the call ends in AssertionError with
\* no distillation term stored and nothing returned.
C19_RequiredInputsFirst ==
    ComposerRan =>
        /\ (/\ ~CausalMode
            /\ loss_args.t_logits.given
            /\ ~loss_args.t_hidden_states.given) => FailedBeforeAnyTerm
        /\ (/\ CausalMode
            /\ \/ ~loss_args.t_logits.given
               \/ ~loss_args.t_hidden_states.given
               \/ ~loss_args.s_logits.given
               \/ ~loss_args.s_hidden_states.given
               \/ ~loss_args.causal_t_hidden_states.given) => FailedBeforeAnyTerm

\* The composer has failed a non-causal call with teacher logits, no teacher
\* hidden states and a zero cosine weight, whose other inputs are all there.
C19_Witness ==
    /\ ComposerRan
    /\ ~CausalMode
    /\ loss_args.t_logits.given
    /\ ~loss_args.t_hidden_states.given
    /\ loss_args.alpha_cos = 0
    /\ loss_args.alpha_mse > 0
    /\ loss_args.temperature.given
    /\ attention_mask.given
    /\ output_hidden_states
    /\ pc = "error"

\* C20: without return_dict the call returns its tuple before the loss
\* composer: for every combination of teacher inputs and weights the composer
\* is never entered, no distillation term is stored or returned, no
\* composer exception is raised, and the tuple carries the masked-LM loss
\* exactly when labels were given.
C20_TupleBeforeComposer ==
    (caller = "MaskedLM" /\ ~return_dict) =>
        /\ pc # "compose"
        /\ StoredDistillation = {}
        /\ student_outputs.logits =>
               /\ pc = "done"
               /\ error = None
               /\ student_outputs.returned
               /\ ~student_outputs.as_dict
               /\ DOMAIN student_outputs.terms = IF labels.given THEN {"loss"} ELSE {}

\* A call without return_dict has returned although its teacher inputs would
\* fail the composer's first assertion and its weights ask for terms.
C20_Witness ==
    /\ caller = "MaskedLM"
    /\ ~return_dict
    /\ pc = "done"
    /\ student_outputs.returned
    /\ loss_args.t_logits.given
    /\ ~loss_args.t_hidden_states.given
    /\ loss_args.alpha_mse > 0
    /\ loss_args.alpha_cos > 0

Mismatched(t) == t.given /\ t.shape # StudentShape

FailedWithoutOutput ==
    /\ pc = "error"
    /\ ~student_outputs.returned

\* C12 as stated: a mismatch between the student and a teacher tensor of the
\* call's mode (teacher logits or teacher final hidden states in non-causal
\* mode with teacher logits, their causal counterparts in causal mode) makes
\* the call raise and return nothing.
C12_MismatchFatal ==
    ComposerRan =>
        /\ (/\ ~CausalMode
            /\ loss_args.t_logits.given
            /\ \/ Mismatched(loss_args.t_logits)
               \/ Mismatched(loss_args.t_hidden_states)) => FailedWithoutOutput
        /\ (/\ CausalMode
            /\ \/ Mismatched(loss_args.causal_t_logits)
               \/ Mismatched(loss_args.causal_t_hidden_states)) => FailedWithoutOutput

\* C12, amended: a mismatch between the student and a teacher tensor the call
\* reads (teacher logits in non-causal mode; teacher final hidden states in
\* non-causal mode with a positive cosine weight; causal teacher logits and
\* causal teacher final hidden states in causal mode) makes the call raise and
\* return nothing, and no term stored or returned was computed from
\* mismatched tensors.
C12_ReadMismatchFatal ==
    ComposerRan =>
        /\ (/\ ~CausalMode
            /\ loss_args.t_logits.given
            /\ \/ Mismatched(loss_args.t_logits)
               \/ loss_args.alpha_cos > 0 /\ Mismatched(loss_args.t_hidden_states))
               => FailedWithoutOutput
        /\ (/\ CausalMode
            /\ \/ Mismatched(loss_args.causal_t_logits)
               \/ Mismatched(loss_args.causal_t_hidden_states)) => FailedWithoutOutput
        /\ ({"loss_ce", "loss_mse"} \cap DOMAIN student_outputs.terms # {})
               => ~Mismatched(loss_args.t_logits)
        /\ "loss_cos" \in DOMAIN student_outputs.terms
               => ~Mismatched(loss_args.t_hidden_states)
        /\ "causal_loss_ce" \in DOMAIN student_outputs.terms
               => ~Mismatched(loss_args.causal_t_logits)
        /\ "causal_loss_cos" \in DOMAIN student_outputs.terms
               => ~Mismatched(loss_args.causal_t_hidden_states)

\* A non-causal call with a positive cosine weight has raised on teacher
\* hidden states of another size, after its soft-target term was stored.
C12_Witness ==
    /\ ComposerRan
    /\ ~CausalMode
    /\ loss_args.t_logits.given
    /\ ~Mismatched(loss_args.t_logits)
    /\ Mismatched(loss_args.t_hidden_states)
    /\ loss_args.alpha_cos > 0
    /\ "loss_ce" \in DOMAIN student_outputs.terms
    /\ pc = "error"
    /\ error = "AssertionError"

\* ============================================ claims, under SpecSelection
\* The positions the mask is documented to select: those with a label (>= 0)
\* under restrict_ce_to_mask, those the attention mask marks 1 otherwise.
SelectedPositions ==
    {r \in Rows : IF selection.restrict_ce_to_mask
                  THEN selection.lm_labels.value[r] >= 0
                  ELSE selection.attention_mask.value[r] = 1}

\* The rows of t at the positions of S, in increasing order.
RECURSIVE RowsAt(_, _, _)
RowsAt(t, S, r) ==
    IF r >= BatchSize THEN << >>
    ELSE (IF r \in S THEN << t[r] >> ELSE << >>) \o RowsAt(t, S, r + 1)

\* C11: in non-causal mode with teacher logits, the student and the teacher
\* selections hold the logits of exactly the selected positions, one row per
\* selected position, both under the same mask; a call whose student and
\* teacher logits differ at an unselected position only has the same
\* soft-target and elementwise loss values, and a change at a selected
\* position shows in the selection.
C11_ExactlySelectedPositions ==
    selection.phase = "done" =>
        /\ selection.first.s_logits_slct =
               RowsAt(selection.s_logits, SelectedPositions, 0)
        /\ selection.first.t_logits_slct =
               RowsAt(selection.t_logits, SelectedPositions, 0)
        /\ Len(selection.first.s_logits_slct) = Cardinality(SelectedPositions)
        /\ Len(selection.first.t_logits_slct) = Cardinality(SelectedPositions)
        /\ selection.position \notin SelectedPositions =>
               /\ selection.second.loss_ce = selection.first.loss_ce
               /\ selection.second.loss_mse = selection.first.loss_mse
        /\ (/\ selection.position \in SelectedPositions
            /\ selection.other_s_logits # selection.s_logits) =>
               selection.second.s_logits_slct # selection.first.s_logits_slct
        /\ (/\ selection.position \in SelectedPositions
            /\ selection.other_t_logits # selection.t_logits) =>
               selection.second.t_logits_slct # selection.first.t_logits_slct

\* Both calls have run under restrict_ce_to_mask; a position labelled with
\* token id 0 is selected, and the calls differ, in student and in teacher
\* logits, at a position without a label.
C11_Witness ==
    /\ selection.phase = "done"
    /\ selection.restrict_ce_to_mask
    /\ \E r \in SelectedPositions : selection.lm_labels.value[r] = 0
    /\ selection.position \notin SelectedPositions
    /\ selection.other_s_logits # selection.s_logits
    /\ selection.other_t_logits # selection.t_logits
    /\ selection.first.loss_mse.rows > 0

\* ============================================== claims, under SpecModules
LastCall == calls[Len(calls)]
LastIsPrune == Len(calls) >= 1 /\ LastCall.op = "prune_heads"
LastIsResize == Len(calls) >= 1 /\ LastCall.op = "resize_position_embeddings"

\* C14: prune_heads(H) directly after a completed prune_heads(H) completes and
\* leaves the pruned set, the head count, the width and the projections as
\* they were, for every head set H.
C14_PruneTwiceIdempotent ==
    (/\ Len(calls) >= 2
     /\ LastIsPrune
     /\ calls[Len(calls) - 1].op = "prune_heads"
     /\ calls[Len(calls) - 1].heads = LastCall.heads
     /\ calls[Len(calls) - 1].status = "ok") =>
        /\ LastCall.status = "ok"
        /\ attention = before.attention

\* C15: prune_heads(H) on a module with heads left, for H a set of heads the
\* module still has, completes with the head count lowered by |H|, the width
\* equal to the old width times (heads - |H|) / heads exactly, and every
\* projection of that width.
C15_WidthAfterPruning ==
    (/\ LastIsPrune
     /\ before.attention.num_attention_heads > 0
     /\ LastCall.heads \subseteq (Heads \ before.attention.pruned_heads)) =>
        LET old == before.attention
            left == old.num_attention_heads - Cardinality(LastCall.heads)
        IN  /\ LastCall.status = "ok"
            /\ attention.num_attention_heads = left
            /\ attention.dim * old.num_attention_heads = old.dim * left
            /\ (old.dim * left) % old.num_attention_heads = 0
            /\ Len(attention.q_lin) = attention.dim
            /\ Len(attention.k_lin) = attention.dim
            /\ Len(attention.v_lin) = attention.dim
            /\ Len(attention.out_lin) = attention.dim

\* A call has pruned some of the heads a module still had and left it a
\* smaller, positive width.
C15_Witness ==
    /\ LastIsPrune
    /\ LastCall.status = "ok"
    /\ LastCall.heads # {}
    /\ LastCall.heads \subseteq (Heads \ before.attention.pruned_heads)
    /\ attention.dim > 0
    /\ attention.dim < before.attention.dim

\* The features of the heads that are not pruned, in increasing order.
RECURSIVE FeaturesFrom(_, _)
FeaturesFrom(pruned, k) ==
    IF k >= HiddenSize THEN << >>
    ELSE (IF (k \div HeadDim) \in pruned THEN << >> ELSE << k >>)
             \o FeaturesFrom(pruned, k + 1)

\* C16: across every sequence of prune_heads calls on a module, the pruned
\* set only grows, a completed call adds exactly the requested heads not
\* pruned before and lowers the head count by their number, and in every
\* reachable state the head count is the original count less the size of the
\* pruned set, the width is the per-head size times the head count, and each
\* projection keeps exactly the features of the heads not pruned.
C16_PruningInvariant ==
    /\ attention.num_attention_heads = NumHeads - Cardinality(attention.pruned_heads)
    /\ attention.dim = HeadDim * attention.num_attention_heads
    /\ before.attention.pruned_heads \subseteq attention.pruned_heads
    /\ attention.q_lin = FeaturesFrom(attention.pruned_heads, 0)
    /\ attention.k_lin = attention.q_lin
    /\ attention.v_lin = attention.q_lin
    /\ attention.out_lin = attention.q_lin
    /\ (LastIsPrune /\ LastCall.status = "ok") =>
           /\ attention.pruned_heads =
                  before.attention.pruned_heads \cup LastCall.heads
           /\ attention.num_attention_heads =
                  before.attention.num_attention_heads
                      - Cardinality(LastCall.heads \ before.attention.pruned_heads)
    /\ (LastIsPrune /\ LastCall.status # "ok") => attention = before.attention

\* A completed call asked for a head pruned before together with one that
\* was not.
C16_Witness ==
    /\ LastIsPrune
    /\ LastCall.status = "ok"
    /\ LastCall.heads \cap before.attention.pruned_heads # {}
    /\ LastCall.heads \ before.attention.pruned_heads # {}

\* C18: resize_position_embeddings(n) with n other than the current count
\* completes and leaves n rows and max_position_embeddings = n; a learned
\* table that grows keeps its vectors in place and gains fresh ones at the
\* end, one that shrinks keeps its first n vectors; a sinusoidal table is the
\* position encoding of n positions; with n the current count nothing changes.
C18_ResizeAsDocumented ==
    LastIsResize =>
        LET old == before.embeddings
            n == LastCall.n
        IN  IF n = old.max_position_embeddings
            THEN LastCall.status = "ok" /\ embeddings = old
            ELSE /\ LastCall.status = "ok"
                 /\ embeddings.max_position_embeddings = n
                 /\ Len(embeddings.weight) = n
                 /\ IF embeddings.sinusoidal_pos_embds
                    THEN embeddings.weight = SinusoidalEmbeddings(n)
                    ELSE \A p \in 1 .. n :
                            IF p <= Len(old.weight)
                            THEN embeddings.weight[p] = old.weight[p]
                            ELSE embeddings.weight[p].kind = "fresh"

====
